---- MODULE Spec2Model ----
(***************************************************************************)
(* The recipe/article REST backend as a state machine.  The state is the   *)
(* relational store (Tag, Ingredient, Recipe, Article rows and the         *)
(* recipe<->tag / recipe<->ingredient association sets), the media         *)
(* storage, and the last request with the response it was given.  Every    *)
(* action is one HTTP request handled from authentication to response.     *)
(***************************************************************************)
EXTENDS Integers, Sequences, FiniteSets, TLC

\* ------------------------------------------------------------------ bounds
MaxTags == 2
MaxIngredients == 1
MaxRecipes == 2
MaxArticles == 1
MaxUploads == 2
\* Names and titles are the codes 1..MaxName, ordered as the strings they
\* stand for; 0 is the empty string and -1 a field the payload does not carry.
MaxName == 2
\* Requests served in one run.
MaxRequests == 4
\* Tokens of a file name given to the upload_to functions on their own.
MaxFileName == 3
\* Chunks the storage writes an uploaded file in.
MaxChunks == 2

\* ------------------------------------------------------------ vocabulary
Users == {"u1", "u2"}
AnonymousUser == "AnonymousUser"
\* What a request carries in its Authorization header: the token of a user,
\* nothing, or a token no user has.  The token of a user of Users is written
\* as the user is.
NoToken == "none"
BadToken == "bad"
Creds == Users \cup {NoToken, BadToken}
\* The primary keys the user table gives out, in order.
UserIds == <<"u1", "u2">>

Kinds == {"tag", "ingredient"}
Names == 1..MaxName
Blank == 0
Absent == -1
NameFields == Names \cup {Blank, Absent}

SAFE_METHODS == {"GET", "HEAD", "OPTIONS"}

VARIABLES Tag, Ingredient, Recipe, Article, nextId, files, uploads, last, nreq,
          User, Token, partials, job, txn

store == <<Tag, Ingredient, Recipe, Article, nextId, files, uploads>>
\* The store without its primary-key counters.
resources == <<Tag, Ingredient, Recipe, Article, files, uploads>>
\* The user table and the token table of rest_framework.authtoken.
accounts == <<User, Token>>
\* The handlers under way: the files an image upload has written in part and
\* where its handler stands, and where the handlers of the recipe updates
\* that run side by side stand.
transfer == <<partials, job, txn>>
vars == <<Tag, Ingredient, Recipe, Article, nextId, files, uploads, last, nreq,
          User, Token, partials, job, txn>>

\* ------------------------------------------------------- authentication
\* TokenAuthentication.authenticate: the user of the token row with this key,
\* AnonymousUser without a header; a key no token row has raises
\* AuthenticationFailed.
AuthenticationFailed(cred) == cred # NoToken /\ cred \notin DOMAIN Token
RequestUser(cred) == IF cred \in DOMAIN Token THEN Token[cred] ELSE AnonymousUser
is_authenticated(user) == user \in Users

\* A view without permission_classes: every request passes.
AllowAny(method, user) == TRUE
\* permission_classes = (IsAuthenticatedOrReadOnly,)
IsAuthenticatedOrReadOnly(method, user) ==
  method \in SAFE_METHODS \/ is_authenticated(user)

\* APIView.initial: authentication, then the permission check; 0 lets the
\* request through to its handler.  With TokenAuthentication as the first
\* authenticator both failures are answered 401.
Initial(method, cred) ==
  IF AuthenticationFailed(cred) THEN 401
  ELSE IF ~IsAuthenticatedOrReadOnly(method, RequestUser(cred)) THEN 401
  ELSE 0

\* ---------------------------------------------------------------- store
EmptyTable == [i \in {} |-> 0]
Put(table, id, row) ==
  [i \in (DOMAIN table) \cup {id} |-> IF i = id THEN row ELSE table[i]]
Delete(table, id) == [i \in (DOMAIN table) \ {id} |-> table[i]]

\* Tag.objects.all() / Ingredient.objects.all(): the viewset's queryset.
Queryset(kind) == IF kind = "tag" THEN Tag ELSE Ingredient
MaxOf(kind) == IF kind = "tag" THEN MaxTags ELSE MaxIngredients
\* The recipe's side of the many-to-many relation of this kind.
Related(kind, row) == IF kind = "tag" THEN row.tags ELSE row.ingredients

\* An image reference is the path of the stored file, a string written as its
\* sequence of tokens; NoImage is the null of ImageField(null=True).
NoImage == <<>>

\* ------------------------------------------------------- query parameters
\* A query parameter is a string or absent.  Integer literals are the
\* strings int() accepts; every other string makes int() raise ValueError.
NoParam == "absent"
IntLiterals == {"0", "1", "2"}
IsInt(s) == s \in IntLiterals
IntOf(s) == CASE s = "0" -> 0 [] s = "1" -> 1 [] s = "2" -> 2 [] OTHER -> 0
AssignedOnlyParams == {NoParam, "0", "1", "2", "x"}

\* A comma-separated id list, kept as the pieces qs.split(',') gives; the
\* empty string splits to the one piece "".
NoList == [present |-> FALSE, toks |-> <<>>]
ListParam(toks) == [present |-> TRUE, toks |-> toks]
NoParams == [assigned_only |-> NoParam, tags |-> NoList, ingredients |-> NoList]

\* ---------------------------------------------------------------- payload
NoIds == [present |-> FALSE, ids |-> {}]
Ids(S) == [present |-> TRUE, ids |-> S]
\* A text field: left out, or the text given (<<>> is the empty text).
NoField == [present |-> FALSE, text |-> <<>>]
Text(t) == [present |-> TRUE, text |-> t]
NoPayload ==
  [name |-> Absent, user |-> "absent", tags |-> NoIds, ingredients |-> NoIds,
   date |-> Absent, image |-> "absent", filename |-> <<>>,
   email |-> <<>>, password |-> NoField]

\* ------------------------------------------------- request and response
\* `body` holds the ids of the rows a response lists or names; `data` holds
\* the serializer's representation, field by field, where a claim reads it.
NoData == <<>>
Response(op, kind, cred, pk, params, payload, status, body) ==
  [op |-> op, kind |-> kind, cred |-> cred, pk |-> pk, params |-> params,
   payload |-> payload, status |-> status, body |-> body, data |-> NoData]

\* The worker between two requests: the last response has been sent.
NoResponse == Response("none", "none", NoToken, 0, NoParams, NoPayload, 0, <<>>)
Idle == last = NoResponse

\* Where the handler of an image upload stands; NoJob outside of one.
NoJob ==
  [pc |-> "idle", kind |-> "none", cred |-> NoToken, pk |-> 0,
   payload |-> NoPayload, path |-> NoImage, written |-> 0]

\* The workers that handle update requests side by side, and where each
\* stands in its handler; NoUpdates while none has a request.
Workers == {"w1", "w2"}
NoUpdate ==
  [pc |-> "idle", partial |-> FALSE, cred |-> NoToken, pk |-> 0,
   payload |-> NoPayload, title |-> Absent, pending |-> {}, status |-> 0]
NoUpdates == [w \in Workers |-> NoUpdate]

\* A request is taken up when the worker is idle.
Accept == Idle /\ job = NoJob /\ nreq < MaxRequests
Respond(r) == last' = r /\ nreq' = nreq + 1

\* ---------------------------------------------- BaseRecipeAttrViewSet
\* A row of a queryset: the item's id and, after a join with the recipes that
\* reference it, the recipe of the joined row (0 without a join).
Row(id, rid) == <<id, rid>>
RowName(kind, r) == Queryset(kind)[r[1]].name

\* queryset.filter(recipe__isnull=False): the inner join with the recipes,
\* one row for every (item, recipe referencing it).
FilterRecipeNotNull(kind) ==
  {r \in (DOMAIN Queryset(kind)) \X (DOMAIN Recipe) :
     r[1] \in Related(kind, Recipe[r[2]])}

\* .filter(user=...) restricting to the recipes of the user instead of the items.
FilterRecipeUser(kind, rows, user) == {r \in rows : Recipe[r[2]].user = user}
\* .filter(user=self.request.user): the items the user owns.
FilterUser(kind, rows, user) ==
  {r \in rows : Queryset(kind)[r[1]].user = user}

\* No .distinct(): the joined rows as they are.
KeepRows(rows) == rows
\* .distinct(): SELECT DISTINCT over the item's own columns.
Distinct(rows) == {Row(r[1], 0) : r \in rows}

\* bool(int(...)) with the parameter defaulting to 1.
AssignedOnlyDefaultOne(ao) == IF ao = NoParam THEN TRUE ELSE IntOf(ao) # 0
\* bool(int(query_params.get('assigned_only', 0))), for a parameter int() accepts.
AssignedOnly(ao) == IF ao = NoParam THEN FALSE ELSE IntOf(ao) # 0

\* The unfiltered branch restricted to the requester's items.
OwnQuerysetAll(kind, user) ==
  {Row(id, 0) : id \in {i \in DOMAIN Queryset(kind) : Queryset(kind)[i].user = user}}
\* self.queryset (line 30): every item, whoever asks.
QuerysetAll(kind, user) == {Row(id, 0) : id \in DOMAIN Queryset(kind)}

\* order_by('name'): the rows in non-decreasing name order.
RECURSIVE OrderByNameAsc(_, _)
OrderByNameAsc(kind, rows) ==
  IF rows = {} THEN {<<>>}
  ELSE LET low == {r \in rows :
                     \A q \in rows : RowName(kind, r) <= RowName(kind, q)}
       IN UNION {{<<r>> \o s : s \in OrderByNameAsc(kind, rows \ {r})} : r \in low}

\* order_by('-name'): every sequence of the rows in non-increasing name order;
\* rows of equal name come in an order the database chooses.
RECURSIVE OrderByNameDesc(_, _)
OrderByNameDesc(kind, rows) ==
  IF rows = {} THEN {<<>>}
  ELSE LET top == {r \in rows :
                     \A q \in rows : RowName(kind, q) <= RowName(kind, r)}
       IN UNION {{<<r>> \o s : s \in OrderByNameDesc(kind, rows \ {r})} : r \in top}

\* BaseRecipeAttrViewSet.get_queryset: the rows, or the exception that ends the
\* request in a server error (int() of a non-integer; a filter on the user
\* column by AnonymousUser, which is no user row).
AttrGetQueryset(kind, user, ao) ==
  IF ao # NoParam /\ ~IsInt(ao) THEN [error |-> "ValueError", rows |-> {}]
  ELSE IF AssignedOnly(ao)
    THEN IF ~is_authenticated(user) THEN [error |-> "TypeError", rows |-> {}]
         ELSE [error |-> "",
               rows |-> Distinct(FilterUser(kind, FilterRecipeNotNull(kind), user))]
    ELSE [error |-> "", rows |-> QuerysetAll(kind, user)]

\* The serialized list: the ids of the rows in queryset order.
IdsOf(rowseq) == [i \in 1..Len(rowseq) |-> rowseq[i][1]]

\* GenericAPIView.get_object over get_queryset(): the row with this pk;
\* Http404 without one, MultipleObjectsReturned (a server error) with several.
GetObject(q, pk) ==
  LET hits == {r \in q.rows : r[1] = pk}
  IN IF q.error # "" THEN 500
     ELSE IF hits = {} THEN 404
     ELSE IF Cardinality(hits) > 1 THEN 500
     ELSE 0

\* serializer.save(user=...) taking the owner from the payload when it has one.
PayloadUserFirst(requestUser, payloadUser) ==
  IF payloadUser \in Users THEN payloadUser ELSE requestUser
\* perform_create: serializer.save(user=self.request.user); the keyword
\* argument overrides whatever the validated data holds.
PerformCreateUser(requestUser, payloadUser) == requestUser

\* name = CharField(max_length=255): required, and not blank.
ValidName(name, partial) == name \in Names \/ (partial /\ name = Absent)

SetAttr(kind, table) ==
  IF kind = "tag" THEN Tag' = table /\ UNCHANGED Ingredient
  ELSE Ingredient' = table /\ UNCHANGED Tag

AttrPayload(name, user) == [NoPayload EXCEPT !.name = name, !.user = user]
AttrParams(ao) == [NoParams EXCEPT !.assigned_only = ao]

\* GET /recipes/tags/ and /recipes/ingredients/
AttrList(kind, cred, ao) ==
  LET st == Initial("GET", cred)
      q == AttrGetQueryset(kind, RequestUser(cred), ao)
      R(status, body) ==
        Response("list", kind, cred, 0, AttrParams(ao), NoPayload, status, body)
  IN /\ Accept
     /\ UNCHANGED <<accounts, transfer>>
     /\ UNCHANGED store
     /\ IF st # 0 THEN Respond(R(st, <<>>))
        ELSE IF q.error # "" THEN Respond(R(500, <<>>))
        ELSE \E s \in OrderByNameDesc(kind, q.rows) : Respond(R(200, IdsOf(s)))

\* POST /recipes/tags/ and /recipes/ingredients/
AttrCreate(kind, cred, name, puser) ==
  LET st == Initial("POST", cred)
      id == nextId[kind]
      row == [name |-> name,
              user |-> PerformCreateUser(RequestUser(cred), puser)]
      R(status, body) ==
        Response("create", kind, cred, 0, NoParams, AttrPayload(name, puser),
                 status, body)
  IN /\ Accept
     /\ UNCHANGED <<accounts, transfer>>
     /\ id <= MaxOf(kind)
     /\ IF st # 0 THEN Respond(R(st, <<>>)) /\ UNCHANGED store
        ELSE IF ~ValidName(name, FALSE)
          THEN Respond(R(400, <<>>)) /\ UNCHANGED store
        ELSE /\ SetAttr(kind, Put(Queryset(kind), id, row))
             /\ nextId' = [nextId EXCEPT ![kind] = id + 1]
             /\ Respond(R(201, <<id>>))
             /\ UNCHANGED <<Recipe, Article, files, uploads>>

\* PUT (partial = FALSE) and PATCH (partial = TRUE) on /recipes/tags/<pk>/
AttrUpdate(kind, partial, cred, pk, ao, name) ==
  LET st == Initial(IF partial THEN "PATCH" ELSE "PUT", cred)
      found == GetObject(AttrGetQueryset(kind, RequestUser(cred), ao), pk)
      R(status, body) ==
        Response(IF partial THEN "partial_update" ELSE "update", kind, cred, pk,
                 AttrParams(ao), AttrPayload(name, "absent"), status, body)
  IN /\ Accept
     /\ UNCHANGED <<accounts, transfer>>
     /\ IF st # 0 THEN Respond(R(st, <<>>)) /\ UNCHANGED store
        ELSE IF found # 0 THEN Respond(R(found, <<>>)) /\ UNCHANGED store
        ELSE IF ~ValidName(name, partial)
          THEN Respond(R(400, <<>>)) /\ UNCHANGED store
        ELSE /\ SetAttr(kind,
                   [Queryset(kind) EXCEPT ![pk].name =
                      IF name = Absent THEN @ ELSE name])
             /\ Respond(R(200, <<pk>>))
             /\ UNCHANGED <<Recipe, Article, nextId, files, uploads>>

\* DELETE on /recipes/tags/<pk>/: the row goes, and with it its rows of the
\* recipe association table.
AttrDestroy(kind, cred, pk, ao) ==
  LET st == Initial("DELETE", cred)
      found == GetObject(AttrGetQueryset(kind, RequestUser(cred), ao), pk)
      R(status) ==
        Response("destroy", kind, cred, pk, AttrParams(ao), NoPayload, status, <<>>)
  IN /\ Accept
     /\ UNCHANGED <<accounts, transfer>>
     /\ IF st # 0 THEN Respond(R(st)) /\ UNCHANGED store
        ELSE IF found # 0 THEN Respond(R(found)) /\ UNCHANGED store
        ELSE /\ SetAttr(kind, Delete(Queryset(kind), pk))
             /\ Recipe' = [r \in DOMAIN Recipe |->
                             IF kind = "tag"
                             THEN [Recipe[r] EXCEPT !.tags = @ \ {pk}]
                             ELSE [Recipe[r] EXCEPT !.ingredients = @ \ {pk}]]
             /\ Respond(R(204))
             /\ UNCHANGED <<Article, nextId, files, uploads>>

\* ------------------------------------------------------- RecipeViewSet
\* A row of the recipe queryset: the recipe's id, and the tag and the
\* ingredient of the joined association rows (0 without that join).
RecipeRows == {<<id, 0, 0>> : id \in DOMAIN Recipe}

\* `if tags:` is true of a parameter that is present and not the empty string.
Truthy(p) == p.present /\ p.toks # <<"">>
\* _params_to_int: int() of every piece; one bad piece raises ValueError.
ParamsAreInts(p) == \A i \in 1..Len(p.toks) : IsInt(p.toks[i])
ParamsToInt(p) == {IntOf(p.toks[i]) : i \in 1..Len(p.toks)}

\* queryset.filter(tags__id__in=tag_ids): the join with the association
\* table, one row for every tag of the recipe that is among the ids.
FilterTagsIn(rows, ids) ==
  {<<p[1][1], p[2], p[1][3]>> :
     p \in {x \in rows \X (1..MaxTags) : x[2] \in Recipe[x[1][1]].tags \cap ids}}
\* queryset.filter(ingredients__id__in=ing_ids)
FilterIngredientsIn(rows, ids) ==
  {<<p[1][1], p[1][2], p[2]>> :
     p \in {x \in rows \X (1..MaxIngredients) :
              x[2] \in Recipe[x[1][1]].ingredients \cap ids}}

QueryError(params) ==
  \/ Truthy(params.tags) /\ ~ParamsAreInts(params.tags)
  \/ Truthy(params.ingredients) /\ ~ParamsAreInts(params.ingredients)

\* The two filters applied side by side and their results united.
RecipeGetQuerysetEither(params) ==
  IF QueryError(params) THEN [error |-> "ValueError", rows |-> {}]
  ELSE LET byTags == FilterTagsIn(RecipeRows, ParamsToInt(params.tags))
           byIngs == FilterIngredientsIn(RecipeRows, ParamsToInt(params.ingredients))
       IN [error |-> "",
           rows |-> IF Truthy(params.tags) /\ Truthy(params.ingredients)
                      THEN byTags \cup byIngs
                    ELSE IF Truthy(params.tags) THEN byTags
                    ELSE IF Truthy(params.ingredients) THEN byIngs
                    ELSE RecipeRows]
\* RecipeViewSet.get_queryset before its ordering: each filter restricts the
\* queryset the one before it left.
RecipeGetQueryset(params) ==
  IF QueryError(params) THEN [error |-> "ValueError", rows |-> {}]
  ELSE LET q1 == IF Truthy(params.tags)
                 THEN FilterTagsIn(RecipeRows, ParamsToInt(params.tags))
                 ELSE RecipeRows
           q2 == IF Truthy(params.ingredients)
                 THEN FilterIngredientsIn(q1, ParamsToInt(params.ingredients))
                 ELSE q1
       IN [error |-> "", rows |-> q2]

\* order_by('-id'): rows of one recipe are equal in every serialized field,
\* so their order among themselves does not show.
RECURSIVE OrderByIdDesc(_)
OrderByIdDesc(rows) ==
  IF rows = {} THEN <<>>
  ELSE LET r == CHOOSE x \in rows : \A y \in rows : y[1] <= x[1]
       IN <<r>> \o OrderByIdDesc(rows \ {r})

\* ---------------------------------------------------- RecipeSerializer
\* title = CharField(max_length=255): required, and not blank.
ValidTitle(title, partial) == title \in Names \/ (partial /\ title = Absent)
\* A related field accepts only the primary keys of existing rows.
ValidIds(f, table) == f.ids \subseteq DOMAIN table
ValidRecipe(p, partial) ==
  /\ ValidTitle(p.name, partial)
  /\ ValidIds(p.tags, Tag)
  /\ ValidIds(p.ingredients, Ingredient)

\* An update that keeps the relation a payload does not carry, PUT or PATCH.
KeepRelation(old, f, partial) == IF f.present THEN f.ids ELSE old
\* The relation after an update: the ids given; without the field a PUT
\* leaves none and a PATCH leaves the relation as it was.
UpdatedRelation(old, f, partial) ==
  IF f.present THEN f.ids ELSE IF partial THEN old ELSE {}

RecipePayload(title, tags, ingredients, puser) ==
  [NoPayload EXCEPT !.name = title, !.tags = tags,
                    !.ingredients = ingredients, !.user = puser]
RecipeParams(tags, ingredients) ==
  [NoParams EXCEPT !.tags = tags, !.ingredients = ingredients]

\* GET /recipes/
RecipeList(cred, params) ==
  LET st == Initial("GET", cred)
      q == RecipeGetQueryset(params)
      R(status, body) ==
        Response("list", "recipe", cred, 0, params, NoPayload, status, body)
  IN /\ Accept
     /\ UNCHANGED <<accounts, transfer>>
     /\ UNCHANGED store
     /\ IF st # 0 THEN Respond(R(st, <<>>))
        ELSE IF q.error # "" THEN Respond(R(500, <<>>))
        ELSE Respond(R(200, IdsOf(OrderByIdDesc(q.rows))))

\* POST /recipes/
RecipeCreate(cred, p) ==
  LET st == Initial("POST", cred)
      id == nextId["recipe"]
      row == [user |-> PerformCreateUser(RequestUser(cred), p.user),
              title |-> p.name,
              tags |-> p.tags.ids,
              ingredients |-> p.ingredients.ids,
              image |-> NoImage]
      R(status, body) ==
        Response("create", "recipe", cred, 0, NoParams, p, status, body)
  IN /\ Accept
     /\ UNCHANGED <<accounts, transfer>>
     /\ id <= MaxRecipes
     /\ IF st # 0 THEN Respond(R(st, <<>>)) /\ UNCHANGED store
        ELSE IF ~ValidRecipe(p, FALSE)
          THEN Respond(R(400, <<>>)) /\ UNCHANGED store
        ELSE /\ Recipe' = Put(Recipe, id, row)
             /\ nextId' = [nextId EXCEPT !["recipe"] = id + 1]
             /\ Respond(R(201, <<id>>))
             /\ UNCHANGED <<Tag, Ingredient, Article, files, uploads>>

\* PUT (partial = FALSE) and PATCH (partial = TRUE) on /recipes/<pk>/
RecipeUpdate(partial, cred, pk, params, p) ==
  LET st == Initial(IF partial THEN "PATCH" ELSE "PUT", cred)
      found == GetObject(RecipeGetQueryset(params), pk)
      R(status, body) ==
        Response(IF partial THEN "partial_update" ELSE "update", "recipe", cred,
                 pk, params, p, status, body)
  IN /\ Accept
     /\ UNCHANGED <<accounts, transfer>>
     /\ IF st # 0 THEN Respond(R(st, <<>>)) /\ UNCHANGED store
        ELSE IF found # 0 THEN Respond(R(found, <<>>)) /\ UNCHANGED store
        ELSE IF ~ValidRecipe(p, partial)
          THEN Respond(R(400, <<>>)) /\ UNCHANGED store
        ELSE /\ Recipe' =
                  [Recipe EXCEPT
                     ![pk].title = IF p.name = Absent THEN @ ELSE p.name,
                     ![pk].tags = UpdatedRelation(@, p.tags, partial),
                     ![pk].ingredients = UpdatedRelation(@, p.ingredients, partial)]
             /\ Respond(R(200, <<pk>>))
             /\ UNCHANGED <<Tag, Ingredient, Article, nextId, files, uploads>>

\* DELETE on /recipes/<pk>/: the row and its association rows go; the image
\* file the row names stays in storage.
RecipeDestroy(cred, pk, params) ==
  LET st == Initial("DELETE", cred)
      found == GetObject(RecipeGetQueryset(params), pk)
      R(status) ==
        Response("destroy", "recipe", cred, pk, params, NoPayload, status, <<>>)
  IN /\ Accept
     /\ UNCHANGED <<accounts, transfer>>
     /\ IF st # 0 THEN Respond(R(st)) /\ UNCHANGED store
        ELSE IF found # 0 THEN Respond(R(found)) /\ UNCHANGED store
        ELSE /\ Recipe' = Delete(Recipe, pk)
             /\ Respond(R(204))
             /\ UNCHANGED <<Tag, Ingredient, Article, nextId, files, uploads>>

\* -------------------------------------------------------- image upload
\* A file name is a string, written as its sequence of tokens: a word (a run
\* of characters other than '.' and '/'), "." or "/".
Words == {"photo", "jpg", "noext"}
Dot == "."
Slash == "/"

\* str.split(sep): the pieces between the separators; a string without the
\* separator is its own single piece.
RECURSIVE Split(_, _)
Split(str, sep) ==
  IF \A i \in 1..Len(str) : str[i] # sep THEN <<str>>
  ELSE LET i == CHOOSE k \in 1..Len(str) :
                  str[k] = sep /\ \A j \in 1..(k - 1) : str[j] # sep
       IN <<SubSeq(str, 1, i - 1)>> \o Split(SubSeq(str, i + 1, Len(str)), sep)
Last(seq) == seq[Len(seq)]

\* The client file names of the requests: "photo.jpg", "noext", "../photo.jpg".
FileNames ==
  {<<"photo", Dot, "jpg">>, <<"noext">>, <<Dot, Dot, Slash, "photo", Dot, "jpg">>}
\* The extensions the image validator knows (Pillow's registry).
ImageExtensions == {<<"jpg">>, <<"png">>}
\* What the multipart field `image` holds: nothing, the empty value, a text
\* that is no file, or a file of image content under a client file name.
ImageFields == {"absent", "null", "text", "file"}

\* The name an uploaded file carries into the handler: the part after the
\* last path separator of what the client sent (not empty in FileNames).
UploadedFileName(filename) == Last(Split(filename, Slash))

\* ext = filename.split('.')[-1]
Ext(filename) == Last(Split(filename, Dot))
\* The extension the validator reads: what follows the last dot of the name,
\* none for a name without a dot, or whose only dot is its first or its last
\* character.
Suffix(filename) ==
  LET pieces == Split(filename, Dot)
  IN IF Len(pieces) > 1 /\ Last(pieces) # <<>>
        /\ \E i \in 1..(Len(pieces) - 1) : pieces[i] # <<>>
     THEN Last(pieces) ELSE <<>>

\* The identifier the k-th call of uuid.uuid4() returns, as text.
Uuid4(k) == ToString(k)
\* The path with one identifier for every upload.
SharedNameRecipePath(uuid, filename) ==
  <<"uploads", Slash, "recipe", Slash, Uuid4(1), Dot>> \o Ext(filename)
\* f'{uuid.uuid4()}.{ext}' under os.path.join('uploads/recipe/', ...)
recipe_image_file_path(uuid, filename) ==
  <<"uploads", Slash, "recipe", Slash, uuid, Dot>> \o Ext(filename)
article_image_file_path(uuid, filename) ==
  <<"uploads", Slash, "article", Slash, uuid, Dot>> \o Ext(filename)

\* Storage.get_available_name: the name itself while no file has it, else
\* the name with a new random piece after its stem.
get_available_name(name, taken, fresh) ==
  IF name \notin taken THEN name
  ELSE SubSeq(name, 1, 5) \o <<"_", fresh>> \o SubSeq(name, 6, Len(name))

\* ImageField validation: an uploaded file of image content whose name has an
\* image extension; a field left out or empty is accepted (null=True).
ValidImage(p) ==
  \/ p.image \in {"absent", "null"}
  \/ /\ p.image = "file"
     /\ Suffix(UploadedFileName(p.filename)) \in ImageExtensions
\* A valid request that brings a file to store.
BringsFile(p) == p.image = "file" /\ ValidImage(p)

ImagePayload(image, filename) ==
  [NoPayload EXCEPT !.image = image,
                    !.filename = IF image = "file" THEN filename ELSE <<>>]

\* What the request asks the image column to become.
GivenImage(p, old, path) ==
  CASE p.image = "absent" -> old
    [] p.image = "file" -> path
    [] OTHER -> NoImage

\* The instance assigned and saved before the serializer is asked.
ImageAssignedFirst(old, given, valid) == given
\* A handler that answers a valid upload without saving it.
ImageNeverSaved(old, given, valid) == old
\* if serializer.is_valid(): serializer.save()  -- otherwise nothing is saved
ImageAfterUpload(old, given, valid) == IF valid THEN given ELSE old

\* serializer.data of the image serializers, fields ('id', 'image'); on a
\* failed validation serializer.errors, keyed by the rejected field.
ArticleImageSerializer(id, image) == [id |-> id, image |-> image]
RecipeImageSerializer(id, image) == [id |-> id, image |-> image]
ImageErrors == [image |-> <<"invalid">>]

\* POST /recipes/<pk>/upload-image/
RecipeUploadImage(cred, pk, params, p) ==
  LET st == Initial("POST", cred)
      found == GetObject(RecipeGetQueryset(params), pk)
      name == recipe_image_file_path(Uuid4(uploads + 1),
                                     UploadedFileName(p.filename))
      path == get_available_name(name, files \cup partials, Uuid4(uploads + 1))
      valid == ValidImage(p)
      stored == ImageAfterUpload(Recipe[pk].image,
                                 GivenImage(p, Recipe[pk].image, path), valid)
      R(status, body) ==
        Response("upload_image", "recipe", cred, pk, params, p, status, body)
  IN /\ Accept
     /\ UNCHANGED <<accounts, transfer>>
     /\ BringsFile(p) => uploads < MaxUploads
     /\ IF st # 0 THEN Respond(R(st, <<>>)) /\ UNCHANGED store
        ELSE IF found # 0 THEN Respond(R(found, <<>>)) /\ UNCHANGED store
        ELSE /\ Recipe' = [Recipe EXCEPT ![pk].image = stored]
             /\ IF BringsFile(p)
                THEN files' = files \cup {path} /\ uploads' = uploads + 1
                ELSE UNCHANGED <<files, uploads>>
             /\ Respond([R(IF valid THEN 200 ELSE 400, <<pk>>) EXCEPT !.data =
                           IF valid THEN RecipeImageSerializer(pk, stored)
                           ELSE ImageErrors])
             /\ UNCHANGED <<Tag, Ingredient, Article, nextId>>

\* ------------------------------------------------------ ArticleViewSet
\* ArticleSerializer: title is required and not blank; date comes from
\* DateTimeField(blank=True), so the serializer does not require it.
ValidArticle(p, partial) == ValidTitle(p.name, partial)

ArticlePayload(title, date, puser) ==
  [NoPayload EXCEPT !.name = title, !.date = date, !.user = puser]

ArticleRows == {<<id, 0, 0>> : id \in DOMAIN Article}
ArticleGetQueryset == [error |-> "", rows |-> ArticleRows]

\* GET /articles/
ArticleList(cred) ==
  LET st == Initial("GET", cred)
      R(status, body) ==
        Response("list", "article", cred, 0, NoParams, NoPayload, status, body)
  IN /\ Accept
     /\ UNCHANGED <<accounts, transfer>>
     /\ UNCHANGED store
     /\ IF st # 0 THEN Respond(R(st, <<>>))
        ELSE Respond(R(200, IdsOf(OrderByIdDesc(ArticleGetQueryset.rows))))

\* POST /articles/: a payload without a date passes the serializer and fails
\* in the INSERT, the date column being NOT NULL (IntegrityError).
ArticleCreate(cred, p) ==
  LET st == Initial("POST", cred)
      id == nextId["article"]
      row == [user |-> PerformCreateUser(RequestUser(cred), p.user),
              title |-> p.name, date |-> p.date, image |-> NoImage]
      R(status, body) ==
        Response("create", "article", cred, 0, NoParams, p, status, body)
  IN /\ Accept
     /\ UNCHANGED <<accounts, transfer>>
     /\ id <= MaxArticles
     /\ IF st # 0 THEN Respond(R(st, <<>>)) /\ UNCHANGED store
        ELSE IF ~ValidArticle(p, FALSE)
          THEN Respond(R(400, <<>>)) /\ UNCHANGED store
        ELSE IF p.date = Absent
          THEN Respond(R(500, <<>>)) /\ UNCHANGED store
        ELSE /\ Article' = Put(Article, id, row)
             /\ nextId' = [nextId EXCEPT !["article"] = id + 1]
             /\ Respond(R(201, <<id>>))
             /\ UNCHANGED <<Tag, Ingredient, Recipe, files, uploads>>

\* PUT and PATCH on /articles/<pk>/
ArticleUpdate(partial, cred, pk, p) ==
  LET st == Initial(IF partial THEN "PATCH" ELSE "PUT", cred)
      found == GetObject(ArticleGetQueryset, pk)
      R(status, body) ==
        Response(IF partial THEN "partial_update" ELSE "update", "article", cred,
                 pk, NoParams, p, status, body)
  IN /\ Accept
     /\ UNCHANGED <<accounts, transfer>>
     /\ IF st # 0 THEN Respond(R(st, <<>>)) /\ UNCHANGED store
        ELSE IF found # 0 THEN Respond(R(found, <<>>)) /\ UNCHANGED store
        ELSE IF ~ValidArticle(p, partial)
          THEN Respond(R(400, <<>>)) /\ UNCHANGED store
        ELSE /\ Article' =
                  [Article EXCEPT
                     ![pk].title = IF p.name = Absent THEN @ ELSE p.name,
                     ![pk].date = IF p.date = Absent THEN @ ELSE p.date]
             /\ Respond(R(200, <<pk>>))
             /\ UNCHANGED <<Tag, Ingredient, Recipe, nextId, files, uploads>>

\* DELETE on /articles/<pk>/
ArticleDestroy(cred, pk) ==
  LET st == Initial("DELETE", cred)
      found == GetObject(ArticleGetQueryset, pk)
      R(status) ==
        Response("destroy", "article", cred, pk, NoParams, NoPayload, status, <<>>)
  IN /\ Accept
     /\ UNCHANGED <<accounts, transfer>>
     /\ IF st # 0 THEN Respond(R(st)) /\ UNCHANGED store
        ELSE IF found # 0 THEN Respond(R(found)) /\ UNCHANGED store
        ELSE /\ Article' = Delete(Article, pk)
             /\ Respond(R(204))
             /\ UNCHANGED <<Tag, Ingredient, Recipe, nextId, files, uploads>>

\* POST /articles/<pk>/upload-image/
ArticleUploadImage(cred, pk, p) ==
  LET st == Initial("POST", cred)
      found == GetObject(ArticleGetQueryset, pk)
      name == article_image_file_path(Uuid4(uploads + 1),
                                      UploadedFileName(p.filename))
      path == get_available_name(name, files \cup partials, Uuid4(uploads + 1))
      valid == ValidImage(p)
      stored == ImageAfterUpload(Article[pk].image,
                                 GivenImage(p, Article[pk].image, path), valid)
      R(status, body) ==
        Response("upload_image", "article", cred, pk, NoParams, p, status, body)
  IN /\ Accept
     /\ UNCHANGED <<accounts, transfer>>
     /\ BringsFile(p) => uploads < MaxUploads
     /\ IF st # 0 THEN Respond(R(st, <<>>)) /\ UNCHANGED store
        ELSE IF found # 0 THEN Respond(R(found, <<>>)) /\ UNCHANGED store
        ELSE /\ Article' = [Article EXCEPT ![pk].image = stored]
             /\ IF BringsFile(p)
                THEN files' = files \cup {path} /\ uploads' = uploads + 1
                ELSE UNCHANGED <<files, uploads>>
             /\ Respond([R(IF valid THEN 200 ELSE 400, <<pk>>) EXCEPT !.data =
                           IF valid THEN ArticleImageSerializer(pk, stored)
                           ELSE ImageErrors])
             /\ UNCHANGED <<Tag, Ingredient, Recipe, nextId>>

\* ------------------------------------------------------ user directory
\* An email address is its local part and its domain; <<>> is the empty text.
NoEmail == <<>>
Emails == {<<"a", "x.com">>, <<"a", "X.COM">>, <<"b", "x.com">>}
Lower(str) == IF str = "X.COM" THEN "x.com" ELSE str
\* The argument None where an email is expected.
NoneEmail == <<"None">>
\* The email kept as it was given.
KeepEmail(email) == email
\* BaseUserManager.normalize_email: the domain part in lower case.
normalize_email(email) ==
  IF email = NoEmail THEN NoEmail ELSE <<email[1], Lower(email[2])>>

\* A password is its sequence of characters.
Passwords ==
  {<<"p", "w">>, <<"p", "a", "s", "s">>, <<"p", "a", "s", "s", "1">>,
   <<"o", "t", "h", "e", "r">>}
MinPasswordLength == 5
\* make_password: the salted digest of the password; equal passwords verify.
make_password(raw) == <<"pbkdf2_sha256$">> \o raw
\* A password kept as it was given.
StorePlain(raw) == raw
\* user.set_password(password): the password field becomes the digest.
set_password(raw) == make_password(raw)
\* AbstractBaseUser.check_password
check_password(raw, hashed) == hashed = make_password(raw)

\* A row of User with the defaults of its columns.
UserRow(email, name, password) ==
  [email |-> email, name |-> name, password |-> password,
   is_active |-> TRUE, is_staff |-> TRUE, is_superuser |-> FALSE]

\* The email column is unique.
EmailTaken(email) == \E u \in DOMAIN User : User[u].email = email

\* UserManager.create_user after its check of the email: the row it saves.
create_user(email, password, name) ==
  UserRow(normalize_email(email), name, set_password(password))

\* What a call of a manager method came to: the exception it raised ("" for
\* none) and the primary key of the user it returned.
Outcome(raised, pk) == [raised |-> raised, pk |-> pk]
ManagerPayload(email, password) ==
  [NoPayload EXCEPT !.email = email, !.password = Text(password)]

\* One call of UserManager.create_user(email, password), or with `super` of
\* create_superuser(email, password): `if not email` raises ValueError; the
\* INSERT of user.save() raises IntegrityError on an email a row has; the
\* superuser is saved a second time with both flags set.
ManagerCreate(super, email, password) ==
  LET n == nextId["user"]
      row == create_user(email, password, Blank)
      saved == IF super THEN [row EXCEPT !.is_staff = TRUE, !.is_superuser = TRUE]
               ELSE row
      R(outcome) ==
        [Response(IF super THEN "create_superuser" ELSE "create_user", "manager",
                  NoToken, 0, NoParams, ManagerPayload(email, password), 0, <<>>)
           EXCEPT !.data = outcome]
  IN /\ Accept
     /\ UNCHANGED <<resources, transfer, Token>>
     /\ (email \notin {NoEmail, NoneEmail} /\ ~EmailTaken(row.email))
          => n <= Len(UserIds)
     /\ IF email \in {NoEmail, NoneEmail}
          THEN Respond(R(Outcome("ValueError", 0))) /\ UNCHANGED <<User, nextId>>
        ELSE IF EmailTaken(row.email)
          THEN Respond(R(Outcome("IntegrityError", 0))) /\ UNCHANGED <<User, nextId>>
        ELSE /\ User' = Put(User, UserIds[n], saved)
             /\ nextId' = [nextId EXCEPT !["user"] = n + 1]
             /\ Respond(R(Outcome("", n)))

\* UserSerializer, fields ('email', 'password', 'name'), the password write-only.
UserSerializer(row) == [email |-> row.email, name |-> row.name]
\* The password rule of the serializer: min_length 5.
ValidPassword(f) == f.present /\ Len(f.text) >= MinPasswordLength
\* A create that accepts the email of an existing user.
ValidUserAnyEmail(p) ==
  /\ p.email \in Emails
  /\ ValidPassword(p.password)
  /\ p.name \in Names
\* The serializer's validation of a create: the email given and not that of a
\* user, the password long enough, the name given.
ValidUser(p) ==
  /\ p.email \in Emails /\ ~EmailTaken(p.email)
  /\ ValidPassword(p.password)
  /\ p.name \in Names

UserPayload(email, password, name) ==
  [NoPayload EXCEPT !.email = email, !.password = password, !.name = name]

\* POST /users/create/: open to everyone.  An email that differs from a
\* stored one only in the case of its domain passes the serializer and
\* fails in the INSERT (IntegrityError), the row unsaved.
UserCreate(p) ==
  LET n == nextId["user"]
      row == create_user(p.email, p.password.text, p.name)
      R(status) ==
        Response("create", "user", NoToken, 0, NoParams, p, status, <<>>)
  IN /\ Accept
     /\ UNCHANGED <<resources, transfer>>
     /\ (ValidUser(p) /\ ~EmailTaken(row.email)) => n <= Len(UserIds)
     /\ IF ~ValidUser(p) THEN Respond(R(400)) /\ UNCHANGED <<accounts, nextId>>
        ELSE IF EmailTaken(row.email)
          THEN Respond(R(500)) /\ UNCHANGED <<accounts, nextId>>
        ELSE /\ User' = Put(User, UserIds[n], row)
             /\ nextId' = [nextId EXCEPT !["user"] = n + 1]
             /\ Respond([R(201) EXCEPT !.data = UserSerializer(row)])
             /\ UNCHANGED Token

\* ------------------------------------------------------- token endpoint
\* An authenticate that looks at the email alone.
AuthenticateByEmail(email, password) ==
  {u \in DOMAIN User : User[u].email = email}
\* authenticate(username=email, password=password): the active user with this
\* email whose stored hash the password verifies against, if there is one.
Authenticate(email, password) ==
  {u \in DOMAIN User :
     /\ User[u].email = email
     /\ check_password(password, User[u].password)
     /\ User[u].is_active}

\* The keys of the token rows of a user.
TokensOf(user) == {k \in DOMAIN Token : Token[k] = user}
\* The key the n-th call of Token.generate_key() returns.
generate_key(n) == ToString(n)
\* A login that makes a new token row every time.
AlwaysCreate(user, key) == key
\* Token.objects.get_or_create(user=user): the key of the user's row, or of
\* a new row under the key just generated.
get_or_create(user, key) ==
  IF TokensOf(user) # {} THEN CHOOSE k \in TokensOf(user) : TRUE ELSE key

LoginPayload(email, password) ==
  [NoPayload EXCEPT !.email = email, !.password = password]

\* POST /users/token/: open to everyone.
TokenCreate(p) ==
  LET n == nextId["token"]
      users == Authenticate(p.email, p.password.text)
      user == CHOOSE u \in users : TRUE
      key == get_or_create(user, generate_key(n))
      R(status) ==
        Response("token", "user", NoToken, 0, NoParams, p, status, <<>>)
  IN /\ Accept
     /\ UNCHANGED <<resources, transfer, User>>
     /\ IF p.email = NoEmail \/ ~p.password.present \/ p.password.text = <<>>
          THEN Respond(R(400)) /\ UNCHANGED <<Token, nextId>>
        ELSE IF users = {}
          THEN Respond(R(400)) /\ UNCHANGED <<Token, nextId>>
        ELSE /\ Token' = Put(Token, key, user)
             /\ nextId' = IF key \in DOMAIN Token THEN nextId
                          ELSE [nextId EXCEPT !["token"] = n + 1]
             /\ Respond([R(200) EXCEPT !.data = [token |-> key]])

\* ---------------------------------------------------------- me endpoint
\* A permission that lets everyone read.
ReadOpen(method, user) == method \in SAFE_METHODS \/ is_authenticated(user)
\* permission_classes = (IsAuthenticated,)
IsAuthenticated(method, user) == is_authenticated(user)
\* The methods RetrieveUpdateAPIView has a handler for, of those the clients
\* send here.
MeMethods == {"GET", "PATCH"}

\* The serializer's validation of a profile update: a name given is not
\* blank, a password given is long enough.
ValidProfile(p) ==
  /\ p.name \in Names \cup {Absent}
  /\ p.password.present => ValidPassword(p.password)

ProfilePayload(name, password) ==
  [NoPayload EXCEPT !.name = name, !.password = password]

\* GET, PATCH and POST on /users/me/: authentication and the permission
\* check come first, the choice of the handler after them.
Me(method, cred, p) ==
  LET user == RequestUser(cred)
      row == [User[user] EXCEPT
                !.name = IF p.name = Absent THEN @ ELSE p.name,
                !.password = IF p.password.present
                             THEN set_password(p.password.text) ELSE @]
      R(status) == Response(method, "me", cred, 0, NoParams, p, status, <<>>)
  IN /\ Accept
     /\ UNCHANGED <<store, transfer, Token>>
     /\ IF AuthenticationFailed(cred) \/ ~IsAuthenticated(method, user)
          THEN Respond(R(401)) /\ UNCHANGED User
        ELSE IF method \notin MeMethods
          THEN Respond(R(405)) /\ UNCHANGED User
        ELSE IF user \notin DOMAIN User
          THEN Respond(R(500)) /\ UNCHANGED User
        ELSE IF method = "GET"
          THEN /\ Respond([R(200) EXCEPT !.data = UserSerializer(User[user])])
               /\ UNCHANGED User
        ELSE IF ~ValidProfile(p)
          THEN Respond(R(400)) /\ UNCHANGED User
        ELSE /\ User' = [User EXCEPT ![user] = row]
             /\ Respond([R(200) EXCEPT !.data = UserSerializer(row)])

\* ------------------------------------------------------- specification
Tables == {"tag", "ingredient", "recipe", "article", "user", "token"}

\* No rows, no files, no request served.
EmptyStore ==
  /\ Tag = EmptyTable
  /\ Ingredient = EmptyTable
  /\ Recipe = EmptyTable
  /\ Article = EmptyTable
  /\ files = {}
  /\ partials = {}
  /\ uploads = 0
  /\ nreq = 0
  /\ last = NoResponse
  /\ txn = NoUpdates
\* The users of Users, each registered and holding a token.
TwoUsers ==
  /\ User = [u \in Users |->
              create_user(<<u, "x.com">>, <<"p", "a", "s", "s", "1">>, 1)]
  /\ Token = [u \in Users |-> u]
  /\ nextId = [t \in Tables |->
                IF t \in {"user", "token"} THEN Cardinality(Users) + 1 ELSE 1]

Init == EmptyStore /\ TwoUsers /\ job = NoJob

\* The inputs of the requests.
PayloadUsers == {"absent", "u2"}
\* A relation field: left out, or the ids 1..n (n = 0: the empty list).
TagSets == {NoIds} \cup {Ids(1..n) : n \in 0..MaxTags}
IngredientSets == {NoIds} \cup {Ids(1..n) : n \in 0..MaxIngredients}
ListParams ==
  {NoList, ListParam(<<"">>), ListParam(<<"1">>), ListParam(<<"2">>),
   ListParam(<<"1", "2">>), ListParam(<<"x">>)}
DetailParams == {NoParams, RecipeParams(ListParam(<<"1", "2">>), NoList)}
Dates == {Absent, 1}

\* The response goes out and the worker waits for the next request.
SendResponse ==
  ~Idle /\ last' = NoResponse /\ UNCHANGED <<store, accounts, transfer, nreq>>

\* Every request a client may send, its inputs drawn once a request can be
\* taken up.
Next ==
  \/ Accept /\ \E kind \in Kinds, cred \in Creds, ao \in AssignedOnlyParams :
       AttrList(kind, cred, ao)
  \/ Accept /\ \E kind \in Kinds, cred \in Creds, name \in NameFields \ {Absent},
        puser \in PayloadUsers :
       AttrCreate(kind, cred, name, puser)
  \/ Accept /\ \E kind \in Kinds, cred \in Creds, partial \in BOOLEAN, pk \in 1..MaxTags,
        ao \in {NoParam, "1"}, name \in NameFields :
       pk <= MaxOf(kind) /\ AttrUpdate(kind, partial, cred, pk, ao, name)
  \/ Accept /\ \E kind \in Kinds, cred \in Creds, pk \in 1..MaxTags, ao \in {NoParam, "1"} :
       pk <= MaxOf(kind) /\ AttrDestroy(kind, cred, pk, ao)
  \/ Accept /\ \E cred \in Creds, tags \in ListParams, ingredients \in ListParams :
       RecipeList(cred, RecipeParams(tags, ingredients))
  \/ Accept /\ \E cred \in Creds, title \in NameFields \ {Absent}, tags \in TagSets,
        ingredients \in IngredientSets, puser \in PayloadUsers :
       RecipeCreate(cred, RecipePayload(title, tags, ingredients, puser))
  \/ Accept /\ \E cred \in Creds, partial \in BOOLEAN, pk \in 1..MaxRecipes,
        title \in NameFields, tags \in TagSets, ingredients \in IngredientSets :
       RecipeUpdate(partial, cred, pk, NoParams,
                    RecipePayload(title, tags, ingredients, "absent"))
  \/ Accept /\ \E cred \in Creds, pk \in 1..MaxRecipes, params \in DetailParams :
       RecipeDestroy(cred, pk, params)
  \/ Accept /\ \E cred \in Creds, pk \in 1..MaxRecipes, params \in DetailParams,
        image \in ImageFields, filename \in FileNames :
       RecipeUploadImage(cred, pk, params, ImagePayload(image, filename))
  \/ Accept /\ \E cred \in Creds : ArticleList(cred)
  \/ Accept /\ \E cred \in Creds, title \in NameFields \ {Absent}, date \in Dates,
        puser \in PayloadUsers :
       ArticleCreate(cred, ArticlePayload(title, date, puser))
  \/ Accept /\ \E cred \in Creds, partial \in BOOLEAN, pk \in 1..MaxArticles,
        title \in NameFields, date \in Dates :
       ArticleUpdate(partial, cred, pk, ArticlePayload(title, date, "absent"))
  \/ Accept /\ \E cred \in Creds, pk \in 1..MaxArticles : ArticleDestroy(cred, pk)
  \/ Accept /\ \E cred \in Creds, pk \in 1..MaxArticles, image \in ImageFields,
        filename \in FileNames :
       ArticleUploadImage(cred, pk, ImagePayload(image, filename))
  \/ SendResponse

Spec == Init /\ [][Next]_vars

\* ------------------------------------------- accounts, login and profile
\* What a client may send as a password: nothing, the empty text, a password.
PasswordFields == {NoField, Text(<<>>)} \cup {Text(t) : t \in Passwords}
\* What a client may send as its token: nothing, a token nobody has, or one
\* of the keys a login may have returned.
UserCreds == {NoToken, BadToken} \cup {generate_key(n) : n \in 1..Len(UserIds)}

\* No user has registered.
InitUser ==
  /\ EmptyStore
  /\ User = EmptyTable
  /\ Token = EmptyTable
  /\ nextId = [t \in Tables |-> 1]
  /\ job = NoJob

NextUser ==
  \/ Accept /\ \E email \in Emails \cup {NoEmail}, password \in PasswordFields,
        name \in NameFields :
       UserCreate(UserPayload(email, password, name))
  \/ Accept /\ \E email \in Emails \cup {NoEmail}, password \in PasswordFields :
       TokenCreate(LoginPayload(email, password))
  \/ Accept /\ \E method \in {"GET", "POST"}, cred \in UserCreds :
       Me(method, cred, NoPayload)
  \/ Accept /\ \E cred \in UserCreds, name \in NameFields, password \in PasswordFields :
       Me("PATCH", cred, ProfilePayload(name, password))
  \/ SendResponse

SpecUser == InitUser /\ [][NextUser]_vars

\* ------------------------------------------------ the manager's methods
\* Calls of create_user and create_superuser, as the tests and the
\* createsuperuser command make them.
NextManager ==
  \/ Accept /\ \E email \in Emails \cup {NoEmail, NoneEmail}, password \in Passwords :
       ManagerCreate(FALSE, email, password)
  \/ Accept /\ \E email \in Emails \cup {NoEmail, NoneEmail}, password \in Passwords :
       ManagerCreate(TRUE, email, password)
  \/ SendResponse

SpecManager == InitUser /\ [][NextManager]_vars

\* ---------------------------------------------- the upload_to functions
\* Every file name of at most MaxFileName tokens.
FileNameTokens == Words \cup {Dot, Slash}
AllFileNames == UNION {[1..n -> FileNameTokens] : n \in 0..MaxFileName}

InitPath ==
  /\ EmptyStore /\ TwoUsers
  /\ job \in {[NoJob EXCEPT !.payload = ImagePayload("file", f)] : f \in AllFileNames}

\* One call of an upload_to function on the file name, under the next
\* identifier uuid4 gives.
UploadTo(kind, path) ==
  /\ uploads < MaxUploads
  /\ job' = [job EXCEPT !.pc = "named", !.kind = kind, !.path = path]
  /\ uploads' = uploads + 1
  /\ UNCHANGED <<Tag, Ingredient, Recipe, Article, nextId, files, last, nreq,
                 accounts, partials, txn>>
RecipeImageFilePath ==
  UploadTo("recipe",
           recipe_image_file_path(Uuid4(uploads + 1), job.payload.filename))
ArticleImageFilePath ==
  UploadTo("article",
           article_image_file_path(Uuid4(uploads + 1), job.payload.filename))

NextPath == RecipeImageFilePath \/ ArticleImageFilePath
SpecPath == InitPath /\ [][NextPath]_vars

\* ------------------------------------------- the upload, step by step
\* upload_image with serializer.save() taken apart: FileField.pre_save has
\* the storage write the file chunk by chunk under the available name, and
\* only then does Model.save() write the row.  A write or the row update may
\* fail; the request then ends in a server error.
\* Saving the row while the file is still being written.
RowSavedWhileWriting == "saving"
\* Where the handler stands when Model.save() writes the row.
RowSavedWhen == "written"

ImageSerializer(kind, id, image) ==
  IF kind = "recipe" THEN RecipeImageSerializer(id, image)
  ELSE ArticleImageSerializer(id, image)
SetImage(kind, pk, image) ==
  IF kind = "recipe"
  THEN Recipe' = [Recipe EXCEPT ![pk].image = image] /\ UNCHANGED Article
  ELSE Article' = [Article EXCEPT ![pk].image = image] /\ UNCHANGED Recipe

\* The handler up to the start of the save: authentication, get_object,
\* validation; a valid request without a file is saved at once.
UploadBegin(kind, cred, pk, p) ==
  LET st == Initial("POST", cred)
      found == GetObject(IF kind = "recipe" THEN RecipeGetQueryset(NoParams)
                         ELSE ArticleGetQueryset, pk)
      old == IF kind = "recipe" THEN Recipe[pk].image ELSE Article[pk].image
      uuid == Uuid4(uploads + 1)
      name == IF kind = "recipe"
              THEN recipe_image_file_path(uuid, UploadedFileName(p.filename))
              ELSE article_image_file_path(uuid, UploadedFileName(p.filename))
      path == get_available_name(name, files \cup partials, uuid)
      given == GivenImage(p, old, path)
      R(status, body) ==
        Response("upload_image", kind, cred, pk, NoParams, p, status, body)
  IN /\ Accept
     /\ UNCHANGED <<accounts, Tag, Ingredient, nextId, files, partials, txn>>
     /\ BringsFile(p) => uploads < MaxUploads
     /\ IF st # 0
          THEN Respond(R(st, <<>>)) /\ UNCHANGED <<Recipe, Article, uploads, job>>
        ELSE IF found # 0
          THEN Respond(R(found, <<>>)) /\ UNCHANGED <<Recipe, Article, uploads, job>>
        ELSE IF ~ValidImage(p)
          THEN /\ Respond([R(400, <<pk>>) EXCEPT !.data = ImageErrors])
               /\ UNCHANGED <<Recipe, Article, uploads, job>>
        ELSE IF ~BringsFile(p)
          THEN /\ SetImage(kind, pk, given)
               /\ Respond([R(200, <<pk>>) EXCEPT !.data = ImageSerializer(kind, pk, given)])
               /\ UNCHANGED <<uploads, job>>
        ELSE /\ job' = [pc |-> "saving", kind |-> kind, cred |-> cred, pk |-> pk,
                        payload |-> p, path |-> path, written |-> 0]
             /\ uploads' = uploads + 1
             /\ UNCHANGED <<Recipe, Article, last, nreq>>
RecipeUploadBegin(cred, pk, p) == UploadBegin("recipe", cred, pk, p)
ArticleUploadBegin(cred, pk, p) == UploadBegin("article", cred, pk, p)

\* The storage writes the next chunk; with the last one the file is whole.
WriteChunk ==
  /\ job.pc = "saving"
  /\ job' = [job EXCEPT !.written = @ + 1,
                        !.pc = IF job.written + 1 = MaxChunks THEN "written" ELSE @]
  /\ IF job.written + 1 = MaxChunks
     THEN files' = files \cup {job.path} /\ partials' = partials \ {job.path}
     ELSE partials' = partials \cup {job.path} /\ UNCHANGED files
  /\ UNCHANGED <<accounts, Tag, Ingredient, Recipe, Article, nextId, uploads,
                 last, nreq, txn>>

\* The answer of a request that ends in an exception.
ServerError ==
  Respond(Response("upload_image", job.kind, job.cred, job.pk, NoParams,
                   job.payload, 500, <<>>))

\* A write fails: what was written stays where it is, the row is not saved.
WriteFails ==
  /\ job.pc = "saving"
  /\ job' = NoJob
  /\ ServerError
  /\ UNCHANGED <<accounts, store, partials, txn>>

\* Model.save(): the row takes the path of the file, and the handler answers.
SaveRow ==
  /\ job.pc = RowSavedWhen
  /\ SetImage(job.kind, job.pk, job.path)
  /\ job' = NoJob
  /\ Respond([Response("upload_image", job.kind, job.cred, job.pk, NoParams,
                       job.payload, 200, <<job.pk>>)
                EXCEPT !.data = ImageSerializer(job.kind, job.pk, job.path)])
  /\ UNCHANGED <<accounts, Tag, Ingredient, nextId, files, uploads, partials, txn>>

\* The row update fails: the file stays, the row is as it was.
SaveFails ==
  /\ job.pc = "written"
  /\ job' = NoJob
  /\ ServerError
  /\ UNCHANGED <<accounts, store, partials, txn>>

NextUpload ==
  \/ Accept /\ \E cred \in Creds, title \in Names :
       RecipeCreate(cred, RecipePayload(title, NoIds, NoIds, "absent"))
  \/ Accept /\ \E cred \in Creds, title \in Names :
       ArticleCreate(cred, ArticlePayload(title, 1, "absent"))
  \/ Accept /\ \E cred \in Creds, pk \in 1..MaxRecipes, image \in ImageFields,
        filename \in FileNames :
       RecipeUploadBegin(cred, pk, ImagePayload(image, filename))
  \/ Accept /\ \E cred \in Creds, pk \in 1..MaxArticles, image \in ImageFields,
        filename \in FileNames :
       ArticleUploadBegin(cred, pk, ImagePayload(image, filename))
  \/ WriteChunk
  \/ WriteFails
  \/ SaveRow
  \/ SaveFails
  \/ SendResponse
SpecUpload == Init /\ [][NextUpload]_vars

\* --------------------------------------------------- deleting a user
\* on_delete=DO_NOTHING: no row goes with the user.
DoNothing(table, user) == {}
\* on_delete=CASCADE on the user column: the rows that go with the user.
Cascade(table, user) == {id \in DOMAIN table : table[id].user = user}
\* A table without the rows of these ids.
Without(table, ids) == [i \in (DOMAIN table) \ ids |-> table[i]]

\* user.delete(), as the admin site or a shell runs it: the collector deletes
\* the user's tags, ingredients, recipes, articles and token, and the
\* association rows of every deleted tag, ingredient and recipe.
UserDelete(user) ==
  LET tags == Cascade(Tag, user)
      ingredients == Cascade(Ingredient, user)
      recipes == Cascade(Recipe, user)
      articles == Cascade(Article, user)
  IN /\ Idle /\ job = NoJob
     /\ user \in DOMAIN User
     /\ User' = Delete(User, user)
     /\ Token' = Without(Token, TokensOf(user))
     /\ Tag' = Without(Tag, tags)
     /\ Ingredient' = Without(Ingredient, ingredients)
     /\ Article' = Without(Article, articles)
     /\ Recipe' = [r \in (DOMAIN Recipe) \ recipes |->
                     [Recipe[r] EXCEPT !.tags = @ \ tags,
                                       !.ingredients = @ \ ingredients]]
     /\ last' = Response("delete", "user", NoToken, 0, NoParams,
                         [NoPayload EXCEPT !.user = user], 0, <<>>)
     /\ UNCHANGED <<nextId, files, uploads, nreq, transfer>>

\* Creates, updates and deletes by the users, and deletions of users.
NextCascade ==
  \/ Accept /\ \E kind \in Kinds, cred \in Users, name \in Names :
       AttrCreate(kind, cred, name, "absent")
  \/ Accept /\ \E kind \in Kinds, cred \in Users, pk \in 1..MaxTags :
       pk <= MaxOf(kind) /\ AttrDestroy(kind, cred, pk, NoParam)
  \/ Accept /\ \E cred \in Users, tags \in TagSets, ingredients \in IngredientSets :
       RecipeCreate(cred, RecipePayload(1, tags, ingredients, "absent"))
  \/ Accept /\ \E cred \in Users, partial \in BOOLEAN, pk \in 1..MaxRecipes,
        tags \in TagSets, ingredients \in IngredientSets :
       RecipeUpdate(partial, cred, pk, NoParams,
                    RecipePayload(1, tags, ingredients, "absent"))
  \/ Accept /\ \E cred \in Users, pk \in 1..MaxRecipes :
       RecipeDestroy(cred, pk, NoParams)
  \/ Accept /\ \E cred \in Users : ArticleCreate(cred, ArticlePayload(1, 1, "absent"))
  \/ \E user \in Users : UserDelete(user)
  \/ SendResponse
SpecCascade == Init /\ [][NextCascade]_vars

\* ------------------------------------- recipe updates side by side
\* ModelViewSet.update with serializer.save() taken apart, as
\* ModelSerializer.update runs it: the handler reads the instance and
\* validates, sets the plain attributes on it and writes the row with
\* instance.save(), then sets each relation of the validated data with
\* field.set(), and answers.  Every statement is committed on its own.
Relations == {"tags", "ingredients"}
\* The relations the validated data carry: those the payload has, and for a
\* PUT the ones it leaves out as well.
InValidatedData(p, partial) ==
  {rel \in Relations :
     ~partial \/ (IF rel = "tags" THEN p.tags.present ELSE p.ingredients.present)}

\* Authentication, get_object and is_valid; a request that fails one of them
\* is answered at once.
UpdateBegin(w, partial, cred, pk, p) ==
  LET st == Initial(IF partial THEN "PATCH" ELSE "PUT", cred)
      found == GetObject(RecipeGetQueryset(NoParams), pk)
      status == IF st # 0 THEN st
                ELSE IF found # 0 THEN found
                ELSE IF ~ValidRecipe(p, partial) THEN 400 ELSE 0
      request == [NoUpdate EXCEPT !.partial = partial, !.cred = cred, !.pk = pk,
                                  !.payload = p]
  IN /\ txn[w].pc = "idle"
     /\ txn' = [txn EXCEPT ![w] =
                  IF status # 0
                  THEN [request EXCEPT !.pc = "done", !.status = status]
                  ELSE [request EXCEPT
                          !.pc = "validated",
                          !.title = IF p.name = Absent THEN Recipe[pk].title ELSE p.name,
                          !.pending = InValidatedData(p, partial)]]
     /\ UNCHANGED <<store, accounts, partials, job, last, nreq>>

\* instance.save(): the row takes the columns of the instance in memory.
UpdateSave(w) ==
  /\ txn[w].pc = "validated"
  /\ Recipe' = [Recipe EXCEPT ![txn[w].pk].title = txn[w].title]
  /\ txn' = [txn EXCEPT ![w].pc = "saved"]
  /\ UNCHANGED <<Tag, Ingredient, Article, nextId, files, uploads, accounts,
                 partials, job, last, nreq>>

\* field.set(value) for one relation of the validated data.
UpdateSet(w, rel) ==
  /\ txn[w].pc = "saved" /\ rel \in txn[w].pending
  /\ Recipe' =
       IF rel = "tags"
       THEN [Recipe EXCEPT ![txn[w].pk].tags =
               UpdatedRelation(@, txn[w].payload.tags, txn[w].partial)]
       ELSE [Recipe EXCEPT ![txn[w].pk].ingredients =
               UpdatedRelation(@, txn[w].payload.ingredients, txn[w].partial)]
  /\ txn' = [txn EXCEPT ![w].pending = @ \ {rel}]
  /\ UNCHANGED <<Tag, Ingredient, Article, nextId, files, uploads, accounts,
                 partials, job, last, nreq>>

\* return Response(serializer.data)
UpdateRespond(w) ==
  /\ txn[w].pc = "saved" /\ txn[w].pending = {}
  /\ txn' = [txn EXCEPT ![w].pc = "done", ![w].status = 200]
  /\ UNCHANGED <<store, accounts, partials, job, last, nreq>>

\* The token each worker's request carries.
CredOf(w) == IF w = "w1" THEN "u1" ELSE "u2"

\* Tags and recipes are created one request at a time; then each worker
\* handles one PUT or PATCH of recipe 1.
NextConcurrent ==
  \/ Accept /\ txn = NoUpdates /\ AttrCreate("tag", "u1", 1, "absent")
  \/ Accept /\ txn = NoUpdates
       /\ RecipeCreate("u1", RecipePayload(1, NoIds, NoIds, "absent"))
  \/ \E w \in Workers, partial \in BOOLEAN, title \in NameFields \ {Blank},
        tags \in TagSets, ingredients \in {NoIds, Ids({})} :
       UpdateBegin(w, partial, CredOf(w), 1,
                   RecipePayload(title, tags, ingredients, "absent"))
  \/ \E w \in Workers : UpdateSave(w)
  \/ \E w \in Workers, rel \in Relations : UpdateSet(w, rel)
  \/ \E w \in Workers : UpdateRespond(w)
  \/ SendResponse
SpecConcurrent == Init /\ [][NextConcurrent]_vars

\* ================================================================ claims
\* A step in which a request is handled: the worker was idle before it and
\* `last'` holds the request and its response.
Handled == Idle /\ ~Idle'

WriteOps == {"create", "update", "partial_update", "destroy", "upload_image"}
UpdateOps == {"update", "partial_update"}
TableOf(kind) ==
  CASE kind = "tag" -> Tag [] kind = "ingredient" -> Ingredient
    [] kind = "recipe" -> Recipe [] OTHER -> Article
Range(seq) == {seq[i] : i \in 1..Len(seq)}
NoDuplicates(seq) == Cardinality(Range(seq)) = Len(seq)

\* C1: every row a request adds to Tag, Ingredient, Recipe or Article is added
\* by a create request of an authenticated user and is owned by that user,
\* whatever owner the payload names; every stored row has one owner, a user.
C1_OwnerIsRequester ==
  [][Handled =>
       /\ \A id \in (DOMAIN Tag') \ DOMAIN Tag :
            last'.op = "create" /\ last'.cred \in Users /\ Tag'[id].user = last'.cred
       /\ \A id \in (DOMAIN Ingredient') \ DOMAIN Ingredient :
            last'.op = "create" /\ last'.cred \in Users
            /\ Ingredient'[id].user = last'.cred
       /\ \A id \in (DOMAIN Recipe') \ DOMAIN Recipe :
            last'.op = "create" /\ last'.cred \in Users
            /\ Recipe'[id].user = last'.cred
       /\ \A id \in (DOMAIN Article') \ DOMAIN Article :
            last'.op = "create" /\ last'.cred \in Users
            /\ Article'[id].user = last'.cred]_vars
\* A create answered 201 whose payload named another user as the owner.
C1_Witness ==
  /\ last.op = "create" /\ last.status = 201 /\ last.kind = "recipe"
  /\ last.payload.user \in Users /\ last.payload.user # last.cred
  /\ Recipe[last.body[1]].user = last.cred

\* C2: a create, PUT, PATCH, DELETE or image upload that carries no token, or
\* a token of no user, is answered 401 and changes nothing in the store.
C2_AnonymousWriteRejected ==
  [][(Handled /\ last'.op \in WriteOps /\ last'.cred \notin Users) =>
       (last'.status = 401 /\ store' = store)]_vars
\* An anonymous PUT on an existing recipe, answered 401.
C2_Witness ==
  /\ last.op = "update" /\ last.kind = "recipe" /\ last.cred = NoToken
  /\ last.pk \in DOMAIN Recipe /\ last.status = 401

ReferencedByRecipeOf(kind, user) ==
  {id \in DOMAIN TableOf(kind) :
     \E r \in DOMAIN Recipe :
       Recipe[r].user = user /\ id \in Related(kind, Recipe[r])}
\* The items of a kind that `user` owns and some recipe, of any owner, references.
OwnedAndReferenced(kind, user) ==
  {id \in DOMAIN TableOf(kind) :
     /\ TableOf(kind)[id].user = user
     /\ \E r \in DOMAIN Recipe : id \in Related(kind, Recipe[r])}
AssignedListing(ao) ==
  /\ last.op = "list" /\ last.kind \in Kinds /\ last.cred \in Users
  /\ last.params.assigned_only = ao

\* C4 as stated: with assigned_only=1 the listing is exactly the items that
\* a recipe owned by the requester references, each once.
C4_Original ==
  AssignedListing("1") =>
    /\ Range(last.body) = ReferencedByRecipeOf(last.kind, last.cred)
    /\ NoDuplicates(last.body)
\* C4 amended: with assigned_only=1 the listing is exactly the items that the
\* requester owns and that a recipe of any owner references, each item once
\* however many recipes reference it.
C4_AssignedOnlyOwnedItemsOnce ==
  AssignedListing("1") =>
    /\ last.status = 200
    /\ Range(last.body) = OwnedAndReferenced(last.kind, last.cred)
    /\ Len(last.body) = Cardinality(OwnedAndReferenced(last.kind, last.cred))
\* A listing with assigned_only=1 that holds a tag two recipes reference.
C4_Witness ==
  /\ AssignedListing("1") /\ last.kind = "tag" /\ last.status = 200
  /\ \E id \in Range(last.body) :
       Cardinality({r \in DOMAIN Recipe : id \in Recipe[r].tags}) = 2

\* C5: with a nonzero assigned_only the listing holds the items the requester
\* owns that some recipe (of any owner) references, by descending name; an
\* item of another user is not in it, also when a recipe of the requester
\* references it.
C5_AssignedOnlyIsOwnerScoped ==
  \A ao \in {"1", "2"} :
    AssignedListing(ao) =>
      /\ last.status = 200
      /\ \A id \in Range(last.body) :
           /\ id \in DOMAIN TableOf(last.kind)
           /\ TableOf(last.kind)[id].user = last.cred
           /\ \E r \in DOMAIN Recipe : id \in Related(last.kind, Recipe[r])
      /\ \A id \in DOMAIN TableOf(last.kind) :
           (/\ TableOf(last.kind)[id].user = last.cred
            /\ \E r \in DOMAIN Recipe : id \in Related(last.kind, Recipe[r]))
             => id \in Range(last.body)
      /\ \A id \in ReferencedByRecipeOf(last.kind, last.cred) :
           TableOf(last.kind)[id].user # last.cred => id \notin Range(last.body)
      /\ \A i, j \in 1..Len(last.body) :
           i < j => TableOf(last.kind)[last.body[i]].name
                      >= TableOf(last.kind)[last.body[j]].name
\* A listing with assigned_only=2 that returns the requester's tag while a
\* recipe of the requester also references a tag of another user.
C5_Witness ==
  /\ AssignedListing("2") /\ last.kind = "tag" /\ last.body # <<>>
  /\ \E id \in ReferencedByRecipeOf("tag", last.cred) : Tag[id].user # last.cred

\* C6: with assigned_only absent or 0 the listing is the whole collection of
\* the kind: items no recipe references and items of other users included.
C6_UnassignedListsAll ==
  (/\ last.op = "list" /\ last.kind \in Kinds /\ last.cred # BadToken
   /\ last.params.assigned_only \in {NoParam, "0"}) =>
    /\ last.status = 200
    /\ Range(last.body) = DOMAIN TableOf(last.kind)
    /\ Len(last.body) = Cardinality(DOMAIN TableOf(last.kind))
\* A listing with assigned_only=0 by a user that holds a tag of another user
\* which no recipe references.
C6_Witness ==
  /\ last.op = "list" /\ last.kind = "tag" /\ last.cred \in Users
  /\ last.params.assigned_only = "0"
  /\ \E id \in Range(last.body) :
       /\ Tag[id].user # last.cred
       /\ \A r \in DOMAIN Recipe : id \notin Recipe[r].tags

\* The ids a list parameter names, read piece by piece.
ListedIds(p) == {n \in 0..2 : \E i \in 1..Len(p.toks) : p.toks[i] = ToString(n)}
NumericList(p) ==
  p.present /\ p.toks # <<>> /\ \A i \in 1..Len(p.toks) : p.toks[i] \in {"0", "1", "2"}

\* C7: a recipe listing with a tags parameter holds exactly the recipes that
\* have one of the listed tags, with an ingredients parameter exactly those
\* that have one of the listed ingredients, and with both exactly those that
\* satisfy both; each parameter a comma-separated list of numeric ids.
C7_RecipeFilter ==
  (/\ last.op = "list" /\ last.kind = "recipe" /\ last.cred # BadToken
   /\ NumericList(last.params.tags) \/ NumericList(last.params.ingredients)
   /\ ~last.params.tags.present \/ NumericList(last.params.tags)
   /\ ~last.params.ingredients.present \/ NumericList(last.params.ingredients)) =>
    /\ last.status = 200
    /\ Range(last.body) =
         {r \in DOMAIN Recipe :
            /\ last.params.tags.present =>
                 Recipe[r].tags \cap ListedIds(last.params.tags) # {}
            /\ last.params.ingredients.present =>
                 Recipe[r].ingredients \cap ListedIds(last.params.ingredients) # {}}
\* A listing with both parameters, each a list of numeric ids, that returns
\* a recipe.
C7_Witness ==
  /\ last.op = "list" /\ last.kind = "recipe" /\ last.status = 200
  /\ NumericList(last.params.tags) /\ NumericList(last.params.ingredients)
  /\ last.body # <<>>

\* C8: an authenticated PUT of a recipe that carries no tags (ingredients)
\* field leaves the recipe without tags (ingredients); a PATCH without the
\* field leaves that relation as it was; a PATCH with a tags field leaves
\* exactly the tags given.
C8_PutClearsPatchKeeps ==
  [][(/\ Handled /\ last'.kind = "recipe" /\ last'.op \in UpdateOps
      /\ last'.cred \in Users /\ last'.status = 200) =>
       LET p == last'.payload
           old == Recipe[last'.pk]
           new == Recipe'[last'.pk]
       IN /\ (last'.op = "update" /\ ~p.tags.present) => new.tags = {}
          /\ (last'.op = "update" /\ ~p.ingredients.present) => new.ingredients = {}
          /\ (last'.op = "partial_update" /\ ~p.tags.present) => new.tags = old.tags
          /\ (last'.op = "partial_update" /\ ~p.ingredients.present) =>
               new.ingredients = old.ingredients
          /\ (last'.op = "partial_update" /\ p.tags.present) => new.tags = p.tags.ids]_vars
\* A PATCH without a tags field answered 200 on a recipe that has a tag.
C8_Witness ==
  /\ last.op = "partial_update" /\ last.kind = "recipe" /\ last.status = 200
  /\ ~last.payload.tags.present /\ last.payload.name \in Names
  /\ Recipe[last.pk].tags # {}

\* C9: a PUT or PATCH by any authenticated user on an existing Tag,
\* Ingredient or Recipe, owner or not, with a payload that carries valid
\* values, is answered 200; the entity then has the name or title and the
\* relations given, and the owner it had.
C9_AnyUserMayUpdate ==
  [][(/\ Handled /\ last'.op \in UpdateOps /\ last'.kind \in Kinds \cup {"recipe"}
      /\ last'.cred \in Users /\ last'.params = NoParams
      /\ last'.pk \in DOMAIN TableOf(last'.kind)
      /\ last'.payload.name \in Names
      /\ last'.payload.tags.ids \subseteq DOMAIN Tag
      /\ last'.payload.ingredients.ids \subseteq DOMAIN Ingredient) =>
       /\ last'.status = 200
       /\ IF last'.kind = "recipe"
          THEN /\ Recipe'[last'.pk].title = last'.payload.name
               /\ Recipe'[last'.pk].user = Recipe[last'.pk].user
               /\ last'.payload.tags.present =>
                    Recipe'[last'.pk].tags = last'.payload.tags.ids
               /\ last'.payload.ingredients.present =>
                    Recipe'[last'.pk].ingredients = last'.payload.ingredients.ids
          ELSE IF last'.kind = "tag"
          THEN /\ Tag'[last'.pk].name = last'.payload.name
               /\ Tag'[last'.pk].user = Tag[last'.pk].user
          ELSE /\ Ingredient'[last'.pk].name = last'.payload.name
               /\ Ingredient'[last'.pk].user = Ingredient[last'.pk].user]_vars
\* A PUT answered 200 on a tag that another user owns.
C9_Witness ==
  /\ last.op = "update" /\ last.kind = "tag" /\ last.status = 200
  /\ last.cred \in Users /\ Tag[last.pk].user # last.cred
  /\ Tag[last.pk].name = last.payload.name

\* The image field of an upload holds no valid image: a text, or a file
\* whose name has no image extension.
NotAnImage(p) ==
  \/ p.image = "text"
  \/ p.image = "file" /\ Suffix(UploadedFileName(p.filename)) \notin ImageExtensions

\* C10: an authenticated image upload on an existing recipe or article whose
\* image field is no valid image is answered 400, and the entity keeps the
\* image reference it had, none or an earlier upload; nothing else changes.
C10_BadImageRejected ==
  [][(/\ Handled /\ last'.op = "upload_image" /\ last'.cred \in Users
      /\ last'.params = NoParams /\ last'.pk \in DOMAIN TableOf(last'.kind)
      /\ NotAnImage(last'.payload)) =>
       /\ last'.status = 400
       /\ IF last'.kind = "recipe"
          THEN Recipe'[last'.pk].image = Recipe[last'.pk].image
          ELSE Article'[last'.pk].image = Article[last'.pk].image
       /\ store' = store]_vars
\* An upload answered 400 on a recipe that holds an earlier upload.
C10_Witness ==
  /\ last.op = "upload_image" /\ last.kind = "recipe" /\ last.status = 400
  /\ last.payload.image = "text"
  /\ Recipe[last.pk].image # NoImage /\ Recipe[last.pk].image \in files

\* The payload of an upload holds a file of image content under a name with
\* an image extension.
IsImageFile(p) ==
  p.image = "file" /\ Suffix(UploadedFileName(p.filename)) \in ImageExtensions

\* C11: an authenticated upload of a valid image to an existing recipe or
\* article is answered 200, the response holds the field `image`, and the
\* image reference then stored for the entity, the one the response shows, is
\* the path of a file in storage.
C11_ValidUploadStored ==
  [][(/\ Handled /\ last'.op = "upload_image" /\ last'.cred \in Users
      /\ last'.params = NoParams /\ last'.pk \in DOMAIN TableOf(last'.kind)
      /\ IsImageFile(last'.payload)) =>
       LET image == IF last'.kind = "recipe" THEN Recipe'[last'.pk].image
                    ELSE Article'[last'.pk].image
       IN /\ last'.status = 200
          /\ "image" \in DOMAIN last'.data
          /\ image # NoImage
          /\ image \in files'
          /\ last'.data.image = image]_vars
\* An upload of "photo.jpg" answered 200 on a recipe, the file stored.
C11_Witness ==
  /\ last.op = "upload_image" /\ last.kind = "recipe" /\ last.status = 200
  /\ last.payload.image = "file"
  /\ last.payload.filename = <<"photo", Dot, "jpg">>
  /\ Recipe[last.pk].image \in files
  /\ last.data.image = Recipe[last.pk].image

\* The extension of a file name: what follows the last dot of its last path
\* component, nothing when that component has no dot inside it.
ExtensionOf(filename) == Suffix(Last(Split(filename, Slash)))

\* C12 as stated: for every file name the upload_to functions return
\* 'uploads/recipe/<id>.<ext>' and 'uploads/article/<id>.<ext>', <id> the
\* identifier generated and <ext> the extension of the file name.
C12_Original ==
  job.pc = "named" =>
    job.path = <<"uploads", Slash, job.kind, Slash, Uuid4(uploads), Dot>>
                 \o ExtensionOf(job.payload.filename)

\* The identifier in a stored path: what follows the upload directory.
IdentifierOf(path) == path[5]

\* C13: whatever file name the client sends (with an extension or without a
\* dot, with path separators), an upload either stores nothing or stores one
\* new file: directly in the upload directory of the entity's type, under an
\* identifier no stored file carries and a path no stored file has; every
\* file stored before stays, and no other entity's image reference changes.
C13_FreshStoredPath ==
  [][(Handled /\ last'.op = "upload_image") =>
       LET kind == last'.kind
           image == IF kind = "recipe" THEN Recipe'[last'.pk].image
                    ELSE Article'[last'.pk].image
       IN \/ files' = files
          \/ /\ files' = files \cup {image}
             /\ image \notin files
             /\ SubSeq(image, 1, 4) = <<"uploads", Slash, kind, Slash>>
             /\ \A i \in 5..Len(image) : image[i] # Slash
             /\ \A f \in files : IdentifierOf(f) # IdentifierOf(image)
             /\ \A id \in DOMAIN Recipe :
                  (kind = "recipe" /\ id = last'.pk)
                    \/ Recipe'[id].image = Recipe[id].image
             /\ \A id \in DOMAIN Article :
                  (kind = "article" /\ id = last'.pk)
                    \/ Article'[id].image = Article[id].image]_vars
\* An upload under the client name "../photo.jpg" answered 200 on a recipe
\* while another recipe holds an earlier upload: two files, two paths.
C13_Witness ==
  /\ last.op = "upload_image" /\ last.kind = "recipe" /\ last.status = 200
  /\ last.payload.image = "file"
  /\ last.payload.filename = <<Dot, Dot, Slash, "photo", Dot, "jpg">>
  /\ \E other \in DOMAIN Recipe :
       /\ other # last.pk
       /\ Recipe[other].image \in files
       /\ Recipe[last.pk].image \in files
       /\ Recipe[other].image # Recipe[last.pk].image

\* C14 as stated: a delete of a recipe or an article that holds an uploaded
\* image removes the stored image file with the row.
C14_Original ==
  [][(/\ Handled /\ last'.op = "destroy" /\ last'.status = 204
      /\ last'.kind \in {"recipe", "article"}) =>
       LET image == IF last'.kind = "recipe" THEN Recipe[last'.pk].image
                    ELSE Article[last'.pk].image
       IN image \in files => image \notin files']_vars

\* The image reference is that of a file written in full.
WholeFile(image, written, begun) == image \in written /\ image \notin begun
\* The request just answered emptied the image field of the entity.
Cleared(kind, pk) ==
  /\ last.op = "upload_image" /\ last.kind = kind /\ last.pk = pk
  /\ last.status = 200 /\ last.payload.image = "null"

\* C15: after every step of an upload, one that fails while the file is
\* written or while the row is saved included, the image reference of every
\* recipe and article is what it was before the step or the path of a file
\* written in full (or none, when the request emptied the field): never the
\* path of a file written in part or of no file.
C15_ReferenceNeverPartial ==
  [][/\ \A id \in DOMAIN Recipe' :
          /\ Recipe'[id].image = NoImage \/ WholeFile(Recipe'[id].image, files', partials')
          /\ id \in DOMAIN Recipe =>
               \/ Recipe'[id].image = Recipe[id].image
               \/ WholeFile(Recipe'[id].image, files', partials')
               \/ Recipe'[id].image = NoImage /\ Cleared("recipe", id)'
     /\ \A id \in DOMAIN Article' :
          /\ Article'[id].image = NoImage \/ WholeFile(Article'[id].image, files', partials')
          /\ id \in DOMAIN Article =>
               \/ Article'[id].image = Article[id].image
               \/ WholeFile(Article'[id].image, files', partials')
               \/ Article'[id].image = NoImage /\ Cleared("article", id)']_vars
\* A second upload to a recipe has failed after a chunk was written: the
\* chunk lies in storage, and the recipe still names its first, whole file.
C15_Witness ==
  /\ job = NoJob /\ last.op = "upload_image" /\ last.kind = "recipe"
  /\ last.status = 500 /\ partials # {}
  /\ last.pk \in DOMAIN Recipe
  /\ Recipe[last.pk].image # NoImage /\ WholeFile(Recipe[last.pk].image, files, partials)

\* The users a login names rightly: those with the email given whose stored
\* password the password given verifies against.
RightlyNamed(p) ==
  {u \in DOMAIN User :
     /\ User[u].email = p.email
     /\ p.password.present
     /\ check_password(p.password.text, User[u].password)}
LoginAnswered == last' # NoResponse /\ last'.op = "token"

\* C16: a login with the email and the password of a user is answered 200
\* with a token; that token is a token of this user and of nobody else, the
\* user has no other token, and it is the token the user had before the
\* login if there was one, so that logging in again returns the same token.
C16_LoginReturnsTheUsersToken ==
  [][LoginAnswered =>
       \A u \in RightlyNamed(last'.payload) :
         /\ last'.status = 200
         /\ DOMAIN last'.data = {"token"}
         /\ last'.data.token \in DOMAIN Token'
         /\ Token'[last'.data.token] = u
         /\ {k \in DOMAIN Token' : Token'[k] = u} = {last'.data.token}
         /\ TokensOf(u) # {} => last'.data.token \in TokensOf(u)
         /\ User' = User]_vars
\* A login has been answered with a token of the user it named.
C16_Witness ==
  /\ last.op = "token" /\ last.status = 200
  /\ RightlyNamed(last.payload) # {}
  /\ last.data.token \in DOMAIN Token
  /\ Token[last.data.token] \in RightlyNamed(last.payload)

\* C17: a login that names no user rightly (a wrong password, the email or
\* the password blank or missing, an email no user has) is answered 400,
\* carries no token and leaves the token records as they were.
C17_BadLoginRefused ==
  [][(LoginAnswered /\ RightlyNamed(last'.payload) = {}) =>
       /\ last'.status = 400
       /\ last'.data = NoData
       /\ Token' = Token
       /\ User' = User]_vars
\* A login with the email of a user and a password that is not this user's
\* has been refused.
C17_Witness ==
  /\ last.op = "token" /\ last.status = 400
  /\ last.payload.password.present /\ last.payload.password.text # <<>>
  /\ \E u \in DOMAIN User :
       /\ User[u].email = last.payload.email
       /\ ~check_password(last.payload.password.text, User[u].password)

MeAnswered == last' # NoResponse /\ last'.kind = "me"
\* The profile of the user a token belongs to, as a client may see it.
ProfileOf(cred) == [email |-> User[Token[cred]].email, name |-> User[Token[cred]].name]

\* C18: a request to the me endpoint whose token is absent or is no user's
\* token is answered 401 with no data, whatever its method; with the token of
\* a user, a GET is answered 200 with the email and the name of that user and
\* nothing else, and a POST is answered 405; none of these changes a user.
C18_MeNeedsToken ==
  [][MeAnswered =>
       /\ last'.cred \notin DOMAIN Token =>
            last'.status = 401 /\ last'.data = NoData /\ User' = User
       /\ (last'.cred \in DOMAIN Token /\ last'.op = "GET") =>
            /\ last'.status = 200
            /\ last'.data = ProfileOf(last'.cred)
            /\ User' = User
       /\ (last'.cred \in DOMAIN Token /\ last'.op = "POST") =>
            last'.status = 405 /\ last'.data = NoData /\ User' = User]_vars
\* While a user holds a token, a request with no token or with a token that
\* is nobody's has been answered 401.
C18_Witness ==
  /\ last.kind = "me" /\ last.status = 401
  /\ last.cred \notin DOMAIN Token
  /\ DOMAIN Token # {}

CreateAnswered == last' # NoResponse /\ last'.op = "create" /\ last'.kind = "user"
TooShort(f) == f.present /\ Len(f.text) < 5

SetsPassword(u) ==
  \/ CreateAnswered /\ last'.status = 201 /\ u \notin DOMAIN User
  \/ /\ MeAnswered /\ last'.op = "PATCH" /\ last'.status = 200
     /\ last'.payload.password.present /\ Token[last'.cred] = u

\* C20: after an account creation and after a profile update that sets a
\* password, the stored password of the user is not the text given but a
\* value that verifies against it; no other step changes a stored password;
\* no stored password is a text a client has given as a password; and the
\* data of a create or me response has no password field.
C20_PasswordHashedAndHidden ==
  [][/\ \A u \in DOMAIN User' :
          /\ User'[u].password \notin Passwords \cup {<<>>}
          /\ SetsPassword(u) =>
               /\ User'[u].password # last'.payload.password.text
               /\ check_password(last'.payload.password.text, User'[u].password)
          /\ ~SetsPassword(u) => User'[u].password = User[u].password
     /\ (CreateAnswered \/ MeAnswered) => "password" \notin DOMAIN last'.data]_vars
\* A profile update that sets a password has been answered 200, and the
\* stored password verifies against the text given.
C20_Witness ==
  /\ last.kind = "me" /\ last.op = "PATCH" /\ last.status = 200
  /\ last.payload.password.present
  /\ last.cred \in DOMAIN Token
  /\ check_password(last.payload.password.text, User[Token[last.cred]].password)
  /\ User[Token[last.cred]].password # last.payload.password.text

ManagerAnswered == last' # NoResponse /\ last'.kind = "manager"
NoEmailGiven(email) == email = <<>> \/ email = NoneEmail
\* The users a call has stored.
Stored == DOMAIN User' \ DOMAIN User

\* C21, as stated: a call of create_user or create_superuser with an empty
\* or missing email raises and stores no user; every call with a non-empty
\* email stores a user whose email has its domain part in lower case.
C21_Original ==
  [][ManagerAnswered =>
       IF NoEmailGiven(last'.payload.email)
       THEN last'.data.raised # "" /\ User' = User
       ELSE /\ last'.data.raised = ""
            /\ \E u \in Stored :
                 User'[u].email = <<last'.payload.email[1], Lower(last'.payload.email[2])>>]_vars

\* C21, amended: with an empty or missing email the call raises ValueError
\* and stores no user; with a non-empty email that, its domain part put in
\* lower case, no stored user has, it stores exactly one user, with that
\* email; with a non-empty email a stored user has in that form, it raises
\* and stores no user.
C21_EmailCheckedAndNormalized ==
  [][ManagerAnswered =>
       LET email == last'.payload.email
           lowered == <<email[1], Lower(email[2])>>
       IN IF NoEmailGiven(email)
          THEN last'.data.raised = "ValueError" /\ User' = User
          ELSE IF \E u \in DOMAIN User : User[u].email = lowered
            THEN last'.data.raised # "" /\ User' = User
          ELSE /\ last'.data.raised = ""
               /\ Stored = {UserIds[last'.data.pk]}
               /\ \A u \in Stored : User'[u].email = lowered
               /\ \A u \in DOMAIN User : User'[u] = User[u]]_vars
\* A call with an upper-case domain has stored a user.
C21_Witness ==
  /\ last.kind = "manager" /\ last.data.raised = ""
  /\ last.payload.email[2] = "X.COM"
  /\ User[UserIds[last.data.pk]].email = <<last.payload.email[1], "x.com">>

\* C22, as stated: a create request of an authenticated user whose payload
\* has a required field empty or missing (the name of a Tag or Ingredient,
\* the title of a Recipe or Article, the date of an Article) is answered 400
\* and stores nothing.
C22_Original ==
  [][(/\ Handled /\ last'.op = "create" /\ last'.cred \in Users
      /\ \/ last'.payload.name \in {Blank, Absent}
         \/ last'.kind = "article" /\ last'.payload.date = Absent) =>
       (last'.status = 400 /\ store' = store)]_vars

\* C24, as stated: a create or PUT of an article by an authenticated user
\* whose payload has no date is answered 400 and leaves the articles as they
\* were; and no stored article is without a date.
C24_Original ==
  [][/\ (/\ Handled /\ last'.kind = "article" /\ last'.op \in {"create", "update"}
         /\ last'.cred \in Users /\ last'.payload.date = Absent) =>
          (last'.status = 400 /\ Article' = Article)
     /\ \A id \in DOMAIN Article' : Article'[id].date # Absent]_vars

\* The users, tags and ingredients a step removes.
UsersGone == (DOMAIN User) \ DOMAIN User'
GoneOf(kind) ==
  IF kind = "tag" THEN (DOMAIN Tag) \ DOMAIN Tag'
  ELSE (DOMAIN Ingredient) \ DOMAIN Ingredient'

\* C23: after every step every stored tag, ingredient, recipe and article
\* has an owner who is a stored user, and the tag and ingredient sets of
\* every recipe hold stored tags and ingredients only; a step that deletes a
\* user leaves the rows of the other users and none of that user's; a step
\* that deletes a tag or an ingredient and no user leaves every recipe.
C23_NoDanglingReference ==
  [][/\ \A kind \in {"tag", "ingredient", "recipe", "article"} :
          /\ \A id \in DOMAIN TableOf(kind)' :
               TableOf(kind)'[id].user \in DOMAIN User'
          /\ \A id \in DOMAIN TableOf(kind) :
               id \in DOMAIN TableOf(kind)' \/ last'.op \in {"delete", "destroy"}
          /\ UsersGone # {} =>
               \A id \in DOMAIN TableOf(kind) :
                 id \in DOMAIN TableOf(kind)' <=> TableOf(kind)[id].user \notin UsersGone
     /\ \A r \in DOMAIN Recipe' :
          /\ Recipe'[r].tags \subseteq DOMAIN Tag'
          /\ Recipe'[r].ingredients \subseteq DOMAIN Ingredient'
     /\ \A kind \in Kinds :
          (GoneOf(kind) # {} /\ UsersGone = {}) => DOMAIN Recipe' = DOMAIN Recipe]_vars
\* A user has been deleted and with the user the only tag there was; a
\* recipe of the other user is still stored.
C23_Witness ==
  /\ last.op = "delete" /\ last.kind = "user"
  /\ nextId["tag"] = 2 /\ Tag = EmptyTable
  /\ \E r \in DOMAIN Recipe : Recipe[r].user # last.payload.user
  /\ nreq = 2

\* C25, as stated: a recipe listing answered 200 under a tags or an
\* ingredients parameter of numeric ids names every recipe it holds once,
\* also a recipe that has several of the listed tags or ingredients.
C25_Original ==
  (/\ last.op = "list" /\ last.kind = "recipe" /\ last.status = 200
   /\ NumericList(last.params.tags) \/ NumericList(last.params.ingredients)) =>
    NoDuplicates(last.body)

\* The outcomes the error taxonomy documents for a request.
DocumentedOutcomes == {200, 400, 401, 404, 405}

\* C26, as stated: every list request, whoever sends it and whatever its
\* assigned_only, tags and ingredients parameters are, is answered with one
\* of the documented statuses.
C26_Original == last.op = "list" => last.status \in DocumentedOutcomes

\* Recipe 1 as its create request stored it, before any update.
OriginalRecipe ==
  [user |-> "u1", title |-> 1, tags |-> {}, ingredients |-> {}, image |-> NoImage]
\* The row an update request leaves when it is applied to a row on its own.
Applied(row, t) ==
  [row EXCEPT !.title = IF t.payload.name = Absent THEN @ ELSE t.payload.name,
              !.tags = UpdatedRelation(@, t.payload.tags, t.partial),
              !.ingredients = UpdatedRelation(@, t.payload.ingredients, t.partial)]
\* What last-write-wins allows two updates to leave: the row one of them
\* writes, on the original row or on the row the other one left.
LastWriteWins(a, b) ==
  {Applied(OriginalRecipe, a), Applied(OriginalRecipe, b),
   Applied(Applied(OriginalRecipe, a), b), Applied(Applied(OriginalRecipe, b), a)}

\* C27, as stated: once two update requests on recipe 1 that ran side by
\* side have both been answered 200, the recipe is in a state that one of
\* the two leaves when it is applied last, not a mix of the two payloads.
C27_Original ==
  (\A w \in Workers : txn[w].pc = "done" /\ txn[w].status = 200) =>
    Recipe[1] \in LastWriteWins(txn["w1"], txn["w2"])

====
